---- MODULE Spec2Model ----
(***************************************************************************)
(* Frame-by-frame colour propagation of                                    *)
(* ModelInference.inference_frame_by_frame (basicsr/models/pbc_model.py).  *)
(*                                                                         *)
(* Three specifications share the variables:                               *)
(*   Spec        the walk over test_loader, one action per loop iteration  *)
(*   SpecEnv     the same walk while output files may be deleted between   *)
(*               two iterations                                            *)
(*   SpecPolicy  one iteration of the colour assignment loops (lines       *)
(*               252-257 and 259-263) on inputs drawn from bounded sets    *)
(***************************************************************************)
EXTENDS Integers, Sequences, FiniteSets, TLC

VARIABLES
    accu,              \* parameter accu
    self_prop,         \* parameter self_prop
    save_img,          \* parameter save_img (reassigned at line 215)
    pc,                \* position of the walk / of the policy iteration
    pos,               \* number of test_loader items consumed
    seg_json,          \* <character_root>/seg/NNNN.json : dataset colour maps
    gt_png,            \* <character_root>/gt/NNNN.png   : dataset seed image
    out_json,          \* <save_folder>/NNNN.json        : written by the walk
    out_png,           \* <save_folder>/NNNN.png         : written by the walk
    color_dict,        \* local color_dict of the last iteration
    match,             \* local match of the last iteration
    color_next_frame,  \* local color_next_frame of the last iteration
    err,               \* exception that ended the walk, "none" otherwise
    fault,             \* the statement that raised it
    invoked,           \* loader positions for which self.model was called
    deletes,           \* files removed by the environment (SpecEnv)
    i,                 \* loop variable i      (SpecPolicy)
    item,              \* loop variable item   (SpecPolicy)
    scores             \* loop variable scores (SpecPolicy)

vars == <<accu, self_prop, save_img, pc, pos, seg_json, gt_png, out_json,
          out_png, color_dict, match, color_next_frame, err, fault, invoked,
          deletes, i, item, scores>>

(***************************************************************************)
(* Bounds                                                                  *)
(***************************************************************************)
MaxSeg == 2        \* target segments of a frame: len(match)
MaxRef == 3        \* reference segments of a frame: len(scores)
MaxDeletes == 1    \* environment deletions in SpecEnv
ScoreValues == {0, 1}

(***************************************************************************)
(* Colours and colour maps                                                 *)
(***************************************************************************)
Zero == <<0, 0, 0, 0>>
Red == <<255, 0, 0, 255>>
Green == <<0, 255, 0, 255>>
Palette == {Zero, Green, Red}

Digit == <<"0", "1", "2", "3", "4", "5", "6", "7", "8", "9">>

\* str(n) of a non-negative integer
RECURSIVE Str(_)
Str(n) == IF n < 10 THEN Digit[n + 1] ELSE Str(n \div 10) \o Digit[(n % 10) + 1]

\* s.zfill(w)
RECURSIVE ZFill(_, _)
ZFill(s, w) == IF Len(s) >= w THEN s ELSE ZFill("0" \o s, w)

EmptyMap == [k \in {} |-> Zero]

Keys(n) == {Str(k) : k \in 1..n}

\* every colour map with keys among "1".."n"
ColorMaps(n) ==
    UNION {[K -> Palette] : K \in SUBSET Keys(n)}

\* d[k] = v on a dict
Put(d, k, v) == [x \in DOMAIN d \cup {k} |-> IF x = k THEN v ELSE d[x]]

(***************************************************************************)
(* Colour assignment, lines 250-263                                        *)
(***************************************************************************)
\* the key of target segment i without the shift by one
KeyOf_Unshifted(n) == Str(n)

\* key written for target segment i (0-based): str(i + 1)
KeyOf(n) == Str(n + 1)

\* key read for reference segment j (0-based): str(item + 1), str(i + 1)
RefKeyOf(j) == Str(j + 1)

\* a wrong sentinel: 0 instead of -1
Unmatched_Zero(it) == it = 0

\* line 253: item == -1
Unmatched(it) == it = -1

\* lines 253-257 raise KeyError exactly when the looked-up key is absent
DirectRaises(cd, it) == ~Unmatched(it) /\ RefKeyOf(it) \notin DOMAIN cd

\* lines 253-257: the colour assigned in direct mode
DirectColor(cd, it) == IF Unmatched(it) THEN Zero ELSE cd[RefKeyOf(it)]

\* the lookup keyed str(i) instead of str(i + 1)
ColorLookup_Shifted(cd, sc) ==
    [j \in 1..Len(sc) |->
        IF Str(j - 1) \in DOMAIN cd THEN cd[Str(j - 1)] ELSE Zero]

\* line 260: color_lookup, one row per reference segment
ColorLookup(cd, sc) ==
    [j \in 1..Len(sc) |->
        IF RefKeyOf(j - 1) \in DOMAIN cd THEN cd[RefKeyOf(j - 1)] ELSE Zero]

\* row order of np.unique(axis=0): lexicographic
LexLess(a, b) ==
    \E k \in 1..4 : a[k] < b[k] /\ \A m \in 1..(k - 1) : a[m] = b[m]

RECURSIVE SortColors(_)
SortColors(S) ==
    IF S = {} THEN <<>>
    ELSE LET lo == CHOOSE x \in S : \A y \in S \ {x} : LexLess(x, y)
         IN <<lo>> \o SortColors(S \ {lo})

\* distinct colours in order of first occurrence instead of sorted
RECURSIVE FirstSeen(_, _)
FirstSeen(lookup, n) ==
    IF n = 0 THEN <<>>
    ELSE LET before == FirstSeen(lookup, n - 1)
         IN IF \E u \in 1..Len(before) : before[u] = lookup[n]
            THEN before
            ELSE Append(before, lookup[n])

UniqueColors_FirstSeen(lookup) == FirstSeen(lookup, Len(lookup))

\* line 261: unique_colors
UniqueColors(lookup) == SortColors({lookup[j] : j \in DOMAIN lookup})

RECURSIVE SumAt(_, _)
SumAt(sc, J) ==
    IF J = {} THEN 0
    ELSE LET j == CHOOSE x \in J : TRUE IN sc[j] + SumAt(sc, J \ {j})

\* the largest single score of a colour instead of the sum of its scores
AccumulatedProbs_Max(lookup, sc, uc) ==
    [u \in 1..Len(uc) |->
        LET J == {j \in DOMAIN lookup : lookup[j] = uc[u]}
        IN sc[CHOOSE j \in J : \A m \in J : sc[m] <= sc[j]]]

\* line 262: accumulated_probs
AccumulatedProbs(lookup, sc, uc) ==
    [u \in 1..Len(uc) |-> SumAt(sc, {j \in DOMAIN lookup : lookup[j] = uc[u]})]

\* the last index holding the maximum instead of the first
ArgMax_Last(p) ==
    CHOOSE k \in 1..Len(p) :
        /\ \A m \in 1..Len(p) : p[m] <= p[k]
        /\ \A m \in (k + 1)..Len(p) : p[m] < p[k]

\* np.argmax: the first index holding the maximum
ArgMax(p) ==
    CHOOSE k \in 1..Len(p) :
        /\ \A m \in 1..Len(p) : p[m] <= p[k]
        /\ \A m \in 1..(k - 1) : p[m] < p[k]

\* lines 260-263: the colour assigned in accumulated mode
AccuColor(cd, sc) ==
    LET lookup == ColorLookup(cd, sc)
        uc == UniqueColors(lookup)
    IN uc[ArgMax(AccumulatedProbs(lookup, sc, uc))]

\* lines 252-257 over the whole of match; n of its items are done
RECURSIVE DirectLoop(_, _, _)
DirectLoop(cd, m, n) ==
    IF n = 0 THEN EmptyMap
    ELSE Put(DirectLoop(cd, m, n - 1), KeyOf(n - 1), DirectColor(cd, m[n]))

\* lines 259-263 over the whole of match_scores
RECURSIVE AccuLoop(_, _, _)
AccuLoop(cd, ms, n) ==
    IF n = 0 THEN EmptyMap
    ELSE Put(AccuLoop(cd, ms, n - 1), KeyOf(n - 1), AccuColor(cd, ms[n]))

\* the oracle's outputs: match0 over r reference segments, and one score row
Matches(n, r) == [1..n -> -1..(r - 1)]
ScoreRows(r) == [1..r -> ScoreValues]
AllScoreRows == UNION {ScoreRows(r) : r \in 1..MaxRef}

\* one score row of ScoreRows(r) for each colour a row of ScoreRows(r) can
\* give against cd: the rows of a score matrix are resolved one by one, so
\* the matrices over these rows give every colour map a matrix over
\* ScoreRows(r) gives
RowChoices(cd, r) ==
    {CHOOSE sc \in ScoreRows(r) : AccuColor(cd, sc) = c :
         c \in {AccuColor(cd, sc) : sc \in ScoreRows(r)}}

(***************************************************************************)
(* SpecPolicy: one iteration of the assignment loop on drawn inputs        *)
(***************************************************************************)
NoFiles == [c \in {} |-> 0]

PolicyInit ==
    /\ accu \in BOOLEAN
    /\ self_prop = FALSE
    /\ save_img = FALSE
    /\ pc = "iter"
    /\ pos = 0
    /\ seg_json = NoFiles
    /\ gt_png = NoFiles
    /\ out_json = NoFiles
    /\ out_png = NoFiles
    /\ color_dict \in ColorMaps(MaxRef)
    /\ match = <<>>
    /\ color_next_frame = EmptyMap
    /\ err = "none"
    /\ fault = "none"
    /\ invoked = {}
    /\ deletes = 0
    /\ i \in 0..(MaxSeg - 1)
    /\ scores \in AllScoreRows
    /\ item \in -1..(Len(scores) - 1)

walkVars == <<self_prop, save_img, pos, seg_json, gt_png, out_json, out_png,
              match, invoked, deletes>>

\* lines 253-257 for one (i, item)
DirectAssign ==
    /\ pc = "iter"
    /\ ~accu
    /\ IF DirectRaises(color_dict, item)
       THEN /\ pc' = "failed"
            /\ err' = "KeyError"
            /\ fault' = "lookup"
            /\ UNCHANGED color_next_frame
       ELSE /\ pc' = "assigned"
            /\ color_next_frame' =
                   Put(color_next_frame, KeyOf(i), DirectColor(color_dict, item))
            /\ UNCHANGED <<err, fault>>
    /\ UNCHANGED <<accu, color_dict, i, item, scores>>
    /\ UNCHANGED walkVars

\* lines 260-263 for one (i, scores)
AccuAssign ==
    /\ pc = "iter"
    /\ accu
    /\ pc' = "assigned"
    /\ color_next_frame' =
           Put(color_next_frame, KeyOf(i), AccuColor(color_dict, scores))
    /\ UNCHANGED <<err, fault, accu, color_dict, i, item, scores>>
    /\ UNCHANGED walkVars

PolicyNext == DirectAssign \/ AccuAssign

SpecPolicy == PolicyInit /\ [][PolicyNext]_vars

(***************************************************************************)
(* The dataset and the files of the walk                                   *)
(***************************************************************************)
NameWidth == 4

\* the file name of frame k: 0000, 0001, ...
Name(k) == ZFill(Str(k), NameWidth)

Chars == {"A", "B"}

\* test_data["file_name"][0] of each loader item: <character_root>/line/<name>
test_loader ==
    << [character |-> "A", name_str |-> Name(1)],
       [character |-> "A", name_str |-> Name(2)],
       [character |-> "B", name_str |-> Name(1)] >>

\* int(name_str), on the names of the dataset
IntOf(s) == CHOOSE k \in 0..Len(test_loader) : ZFill(Str(k), Len(s)) = s

SegNames == {Name(k) : k \in 0..(Len(test_loader) - 1)}
OutNames == {Name(k) : k \in 0..Len(test_loader)}

Missing == [exists |-> FALSE]
File(data) == [exists |-> TRUE, data |-> data]

\* seg/0000.json of a character, and seg/NNNN.json of its later frames
SeedMap == ("1" :> Red)
GtMap == ("1" :> Green)

\* gt/0000.png of a character
GtImage(c) == [gt |-> c]

\* the seg and gt folders of a character; the seed artifacts of the dataset,
\* of which a run may find one missing
SeedArtifacts == Chars \X {"json", "png"}

SegFolder(lost) ==
    [n \in SegNames |->
        IF n = Name(0) THEN (IF lost THEN Missing ELSE File(SeedMap))
        ELSE File(GtMap)]

GtFolder(c, lost) ==
    [n \in {Name(0)} |-> IF lost THEN Missing ELSE File(GtImage(c))]

\* colorize_label_image: the label image of the frame coloured by the map
Rendered(c, name, cm) == [label |-> <<c, name>>, colors |-> cm]

(***************************************************************************)
(* Spec: the walk of inference_frame_by_frame                              *)
(***************************************************************************)
Init ==
    /\ accu \in BOOLEAN
    /\ self_prop \in BOOLEAN
    /\ save_img \in BOOLEAN
    /\ pc = "start"
    /\ pos = 0
    /\ \E lost \in SUBSET SeedArtifacts :
           /\ Cardinality(lost) <= 1
           /\ seg_json = [c \in Chars |-> SegFolder(<<c, "json">> \in lost)]
           /\ gt_png = [c \in Chars |-> GtFolder(c, <<c, "png">> \in lost)]
    /\ out_json = [c \in Chars |-> [n \in OutNames |-> Missing]]
    /\ out_png = [c \in Chars |-> [n \in OutNames |-> Missing]]
    /\ color_dict = EmptyMap
    /\ match = <<>>
    /\ color_next_frame = EmptyMap
    /\ err = "none"
    /\ fault = "none"
    /\ invoked = {}
    /\ deletes = 0
    /\ i = 0
    /\ item = -1
    /\ scores = <<>>

policyVars == <<i, item, scores>>

\* lines 214-217
Begin ==
    /\ pc = "start"
    /\ pc' = "loop"
    /\ save_img' = IF self_prop THEN TRUE ELSE save_img
    /\ UNCHANGED <<accu, self_prop, pos, seg_json, gt_png, out_json, out_png,
                   color_dict, match, color_next_frame, err, fault, invoked,
                   deletes>>
    /\ UNCHANGED policyVars

\* the seed map is not copied
CopySeedJson_Skip(json, c, prev_name_str) == json

\* line 229: shutil.copy(prev_json_path, save_folder)
CopySeedJson(json, c, prev_name_str) ==
    [json EXCEPT ![c][prev_name_str] = seg_json[c][prev_name_str]]

\* the prior map always read from the seg folder of the dataset
PrevJson_Seg(json, c, prev_name_str) == seg_json[c][prev_name_str]

\* the prior map read from the seg folder when the save folder has none
PrevJson_Fallback(json, c, prev_name_str) ==
    IF self_prop /\ json[c][prev_name_str].exists
    THEN json[c][prev_name_str]
    ELSE seg_json[c][prev_name_str]

\* lines 223, 235-236: the file that load_json reads at line 242
PrevJson(json, c, prev_name_str) ==
    IF self_prop THEN json[c][prev_name_str] ELSE seg_json[c][prev_name_str]

\* the exception is swallowed and the loop goes on with the next item
Raise_Continue(e, where, json, png, cd, m, inv) ==
    /\ pc' = IF pos + 1 = Len(test_loader) THEN "done" ELSE "loop"
    /\ err' = e
    /\ fault' = where
    /\ out_json' = json
    /\ out_png' = png
    /\ color_dict' = cd
    /\ match' = m
    /\ invoked' = inv
    /\ color_next_frame' = EmptyMap

\* an exception leaves the loop and the function: the files written so far
\* stay, nothing else of the loader is processed
Raise(e, where, json, png, cd, m, inv) ==
    /\ pc' = "failed"
    /\ err' = e
    /\ fault' = where
    /\ out_json' = json
    /\ out_png' = png
    /\ color_dict' = cd
    /\ match' = m
    /\ invoked' = inv
    /\ color_next_frame' = EmptyMap

\* lines 265-268, and the next item of the loader
Complete(c, name_str, json, png, cd, m, cnf) ==
    /\ pc' = IF pos + 1 = Len(test_loader) THEN "done" ELSE "loop"
    /\ out_json' = [json EXCEPT ![c][name_str] = File(cnf)]
    /\ out_png' = IF save_img
                  THEN [png EXCEPT ![c][name_str] = File(Rendered(c, name_str, cnf))]
                  ELSE png
    /\ color_dict' = cd
    /\ match' = m
    /\ color_next_frame' = cnf
    /\ invoked' = invoked \cup {pos + 1}
    /\ UNCHANGED <<err, fault>>

\* one iteration of the loop over test_loader, lines 219-268
Handle ==
    /\ pc = "loop"
    /\ pos < Len(test_loader)
    /\ pos' = pos + 1
    /\ LET file == test_loader[pos + 1]
           c == file.character
           name_str == file.name_str
           prev_index == IntOf(name_str) - 1
           prev_name_str == ZFill(Str(prev_index), Len(name_str))
           boot == prev_index = 0
           \* line 229
           seed == seg_json[c][prev_name_str]
           json1 == IF boot /\ seed.exists
                    THEN CopySeedJson(out_json, c, prev_name_str)
                    ELSE out_json
           \* lines 230-233
           gt0 == gt_png[c][prev_name_str]
           png1 == IF boot /\ save_img /\ seed.exists /\ gt0.exists
                   THEN [out_png EXCEPT ![c][prev_name_str] = File(GtImage(c))]
                   ELSE out_png
           \* lines 235-242
           prev_json == PrevJson(json1, c, prev_name_str)
           inv1 == invoked \cup {pos + 1}
       IN  IF boot /\ ~seed.exists
           THEN Raise("FileNotFoundError", "seed_json", out_json, out_png,
                      EmptyMap, <<>>, invoked)
           ELSE IF boot /\ save_img /\ ~gt0.exists
           THEN Raise("FileNotFoundError", "seed_png", json1, out_png,
                      EmptyMap, <<>>, invoked)
           ELSE IF self_prop /\ ~png1[c][prev_name_str].exists
           THEN Raise("FileNotFoundError", "prev_png", json1, png1,
                      EmptyMap, <<>>, invoked)
           ELSE IF ~prev_json.exists
           THEN Raise("FileNotFoundError", "prev_json", json1, png1,
                      EmptyMap, <<>>, invoked)
           ELSE \* lines 246-248: the oracle, n target and r reference segments
                \E n \in 1..MaxSeg, r \in 1..MaxRef :
                    IF accu
                    THEN \E ms \in [1..n -> RowChoices(prev_json.data, r)] :
                             Complete(c, name_str, json1, png1, prev_json.data,
                                      <<>>, AccuLoop(prev_json.data, ms, n))
                    ELSE \E m \in Matches(n, r) :
                             IF \E k \in 1..n : DirectRaises(prev_json.data, m[k])
                             THEN Raise("KeyError", "lookup", json1, png1,
                                        prev_json.data, m, inv1)
                             ELSE Complete(c, name_str, json1, png1,
                                           prev_json.data, m,
                                           DirectLoop(prev_json.data, m, n))
    /\ UNCHANGED <<accu, self_prop, save_img, seg_json, gt_png, deletes>>
    /\ UNCHANGED policyVars

Next == Begin \/ Handle

Spec == Init /\ [][Next]_vars

(***************************************************************************)
(* SpecEnv: the walk, while somebody removes from the save folder the      *)
(* output of the frame before the one the loader yields next               *)
(***************************************************************************)
NextChar == test_loader[pos + 1].character
NextName == test_loader[pos + 1].name_str
NextPrevIndex == IntOf(NextName) - 1
NextPrevName == ZFill(Str(NextPrevIndex), Len(NextName))

DeleteJson ==
    /\ pc = "loop"
    /\ deletes < MaxDeletes
    /\ pos < Len(test_loader)
    /\ LET c == NextChar
           n == NextPrevName
       IN /\ out_json[c][n].exists
          /\ out_json' = [out_json EXCEPT ![c][n] = Missing]
    /\ deletes' = deletes + 1
    /\ UNCHANGED <<accu, self_prop, save_img, pc, pos, seg_json, gt_png,
                   out_png, color_dict, match, color_next_frame, err, fault,
                   invoked>>
    /\ UNCHANGED policyVars

DeletePng ==
    /\ pc = "loop"
    /\ deletes < MaxDeletes
    /\ pos < Len(test_loader)
    /\ LET c == NextChar
           n == NextPrevName
       IN /\ out_png[c][n].exists
          /\ out_png' = [out_png EXCEPT ![c][n] = Missing]
    /\ deletes' = deletes + 1
    /\ UNCHANGED <<accu, self_prop, save_img, pc, pos, seg_json, gt_png,
                   out_json, color_dict, match, color_next_frame, err, fault,
                   invoked>>
    /\ UNCHANGED policyVars

EnvNext == Begin \/ Handle \/ DeleteJson \/ DeletePng

SpecEnv == Init /\ [][EnvNext]_vars

(***************************************************************************)
(* Properties of the colour assignment, checked under SpecPolicy           *)
(***************************************************************************)
\* what the properties say about one score row, stated without the
\* operators of the model
RefColor(j) ==
    IF Str(j) \in DOMAIN color_dict THEN color_dict[Str(j)] ELSE Zero

RefIds == 1..Len(scores)

VotedColors == {RefColor(j) : j \in RefIds}

RECURSIVE Total(_)
Total(J) ==
    IF J = {} THEN 0
    ELSE LET j == CHOOSE x \in J : TRUE IN scores[j] + Total(J \ {j})

Votes(c) == Total({j \in RefIds : RefColor(j) = c})

Winners == {c \in VotedColors : \A d \in VotedColors : Votes(d) <= Votes(c)}

Assigned == pc = "assigned"

Chosen == color_next_frame[Str(i + 1)]

\* C3 as stated: an unmatched target segment gets [0,0,0,0] in both modes.
C3_Original ==
    (Assigned /\ item = -1) => Chosen = Zero

\* C3 amended: with match[i] = -1 direct mode never fails and assigns
\* [0,0,0,0]; accumulated mode does not look at match[i] and assigns a colour
\* of maximal accumulated score.
C3_UnmatchedSentinel ==
    (item = -1) =>
        /\ pc # "failed"
        /\ (Assigned /\ ~accu) => Chosen = Zero
        /\ (Assigned /\ accu) => Chosen \in Winners

C3_Witness ==
    /\ Assigned /\ ~accu /\ item = -1
    /\ DOMAIN color_dict # {}
    /\ Chosen = Zero

\* C4: in accumulated mode an absent reference id counts as [0,0,0,0] and
\* raises nothing, scores are summed per distinct colour, and a colour whose
\* sum is strictly the largest is the one assigned.
C4_SoftVoting ==
    accu =>
        /\ pc # "failed"
        /\ Assigned =>
               \A c \in VotedColors :
                   (\A d \in VotedColors \ {c} : Votes(d) < Votes(c))
                       => Chosen = c

C4_Witness ==
    /\ Assigned /\ accu
    /\ \E j \in RefIds : Str(j) \notin DOMAIN color_dict
    /\ \E c \in VotedColors :
           /\ \A d \in VotedColors \ {c} : Votes(d) < Votes(c)
           /\ \E d \in VotedColors \ {c} : Votes(d) > 0 /\ LexLess(d, c)
           /\ Cardinality({j \in RefIds : RefColor(j) = c /\ scores[j] > 0}) >= 2
           /\ Chosen = c

\* the colour of the lowest-numbered reference id among the tied colours
FirstInLookup(T) ==
    RefColor(CHOOSE j \in RefIds :
                 /\ RefColor(j) \in T
                 /\ \A m \in 1..(j - 1) : RefColor(m) \notin T)

\* C5 as stated: a tie for the maximum goes to the tied colour that occurs
\* first in lookup order.
C5_Original ==
    (Assigned /\ accu /\ Cardinality(Winners) >= 2
        /\ \A c \in Winners : Votes(c) > 0)
        => Chosen = FirstInLookup(Winners)

\* C5 amended: a tie for the maximum goes to the tied colour that is first in
\* the sorted order of np.unique, the lexicographically smallest RGBA row.
C5_TieBreak ==
    (Assigned /\ accu /\ Cardinality(Winners) >= 2)
        => /\ Chosen \in Winners
           /\ \A d \in Winners \ {Chosen} :
                  \E k \in 1..4 :
                      /\ Chosen[k] < d[k]
                      /\ \A m \in 1..(k - 1) : Chosen[m] = d[m]

C5_Witness ==
    /\ Assigned /\ accu
    /\ Cardinality(Winners) >= 2
    /\ Chosen # FirstInLookup(Winners)
    /\ \A c \in Winners : Votes(c) > 0

\* all the mass of scores on reference index item
OneHot ==
    /\ item >= 0
    /\ scores[item + 1] > 0
    /\ \A j \in RefIds \ {item + 1} : scores[j] = 0

\* C8 as stated: on a one-hot score row with match[i] = j, accumulated mode
\* chooses the colour direct mode chooses, for every prior map.
C8_Original ==
    (Assigned /\ accu /\ OneHot)
        => /\ Str(item + 1) \in DOMAIN color_dict
           /\ Chosen = color_dict[Str(item + 1)]

\* C8 amended: the two modes agree on a one-hot row when the prior map holds
\* key j+1; when it does not, direct mode raises KeyError and accumulated
\* mode assigns [0,0,0,0].
C8_OneHotReduction ==
    OneHot =>
        IF Str(item + 1) \in DOMAIN color_dict
        THEN /\ pc # "failed"
             /\ Assigned => Chosen = color_dict[Str(item + 1)]
        ELSE /\ (pc # "iter" /\ ~accu) => (pc = "failed" /\ err = "KeyError")
             /\ (Assigned /\ accu) => Chosen = Zero

C8_Witness ==
    /\ Assigned /\ accu /\ OneHot
    /\ item >= 1
    /\ Str(item + 1) \in DOMAIN color_dict
    /\ Cardinality(VotedColors) >= 2
    /\ Chosen = color_dict[Str(item + 1)]
    /\ Chosen # RefColor(1)

\* the prior map and the score row with reference id p[m] renamed m: the
\* new id m has the colour and the score of the old id p[m]; keys of the
\* prior map beyond the score row stay
RelabelDict(p) ==
    LET named == {m \in RefIds : Str(p[m]) \in DOMAIN color_dict}
        kept == {k \in DOMAIN color_dict : \A j \in RefIds : k # Str(j)}
    IN [k \in {Str(m) : m \in named} \cup kept |->
           IF k \in kept THEN color_dict[k]
           ELSE color_dict[Str(p[CHOOSE m \in named : Str(m) = k])]]

RelabelScores(p) == [m \in RefIds |-> scores[p[m]]]

\* C9: renaming the reference ids, in the prior map and in the score row
\* together, leaves the colour assigned by accumulated mode unchanged, ties
\* included.
C9_RelabelInvariant ==
    (Assigned /\ accu) =>
        \A p \in Permutations(RefIds) :
            AccuColor(RelabelDict(p), RelabelScores(p)) = Chosen

C9_Witness ==
    /\ Assigned /\ accu
    /\ Cardinality(Winners) >= 2
    /\ \A c \in Winners : Votes(c) > 0
    /\ \E p \in Permutations(RefIds) :
           /\ RelabelDict(p) # color_dict
           /\ LET first == CHOOSE j \in RefIds : scores[j] > 0
              IN RefColor(first) # Chosen /\ p[first] # first

(***************************************************************************)
(* Properties of the walk, checked under Spec and SpecEnv                  *)
(***************************************************************************)
\* the loader item of the last iteration
LastChar == test_loader[pos].character
LastName == test_loader[pos].name_str
LastPrevIndex == IntOf(LastName) - 1
LastPrevName == ZFill(Str(LastPrevIndex), Len(LastName))

\* the last iteration got as far as load_json returning
Loaded == pos >= 1 /\ fault \in {"none", "lookup"}

\* the last iteration ran to its end
Completed == pos >= 1 /\ err = "none"

\* C1 as stated: in both modes the prior map of a frame is what the walk
\* itself persisted for the frame before (the copied seed for frame 1).
C1_Original ==
    Loaded =>
        /\ out_json[LastChar][LastPrevName].exists
        /\ color_dict = out_json[LastChar][LastPrevName].data

\* C1 amended: with self_prop the prior map of a frame is what the walk
\* persisted for the frame before (the copied seed for frame 1); without
\* self_prop it is the dataset's own seg/<k-1>.json.
C1_PriorMapSource ==
    Loaded =>
        IF self_prop
        THEN /\ out_json[LastChar][LastPrevName].exists
             /\ color_dict = out_json[LastChar][LastPrevName].data
        ELSE color_dict = seg_json[LastChar][LastPrevName].data

C1_Witness ==
    /\ Loaded /\ self_prop
    /\ LastPrevIndex >= 1
    /\ color_dict = out_json[LastChar][LastPrevName].data
    /\ color_dict # seg_json[LastChar][LastPrevName].data

\* C2: direct mode writes exactly the keys "1".."n" for the n items of match,
\* and the colour of key i+1 is the prior map's colour of key match[i]+1.
C2_DirectCopy ==
    (Completed /\ ~accu) =>
        /\ DOMAIN color_next_frame = {Str(k) : k \in 1..Len(match)}
        /\ \A k \in 1..Len(match) :
               (match[k] >= 0 /\ Str(match[k] + 1) \in DOMAIN color_dict)
                   => color_next_frame[Str(k)] = color_dict[Str(match[k] + 1)]
        /\ out_json[LastChar][LastName] = File(color_next_frame)

C2_Witness ==
    /\ Completed /\ ~accu
    /\ Len(match) >= 2
    /\ match[1] = 1
    /\ match[2] = 0
    /\ color_dict["1"] # color_dict["2"]
    /\ color_next_frame["1"] = color_dict["2"]
    /\ color_next_frame["2"] = color_dict["1"]

\* the walk ended by an exception
Failed == err # "none"

LaterItems == (pos + 1)..Len(test_loader)

\* C6 as stated: after a fatal failure in a frame of one character the later
\* frames of the other characters are still processed and written.
C6_Original ==
    Failed =>
        \A q \in LaterItems :
            test_loader[q].character # LastChar
                => out_json[test_loader[q].character][test_loader[q].name_str].exists

\* C6 amended: a fatal failure ends the whole walk: no later item of the
\* loader, of the failing character or of any other, is processed; the
\* outputs of the items before it are all there, and no step of the walk
\* removes or changes a file it has written.
C6_FailureEndsWalk ==
    /\ [](Failed =>
            /\ \A q \in LaterItems :
                   /\ q \notin invoked
                   /\ ~out_json[test_loader[q].character][test_loader[q].name_str].exists
            /\ \A q \in 1..(pos - 1) :
                   /\ q \in invoked
                   /\ out_json[test_loader[q].character][test_loader[q].name_str].exists)
    /\ [][\A c \in Chars, n \in OutNames :
              /\ out_json[c][n].exists => out_json'[c][n] = out_json[c][n]
              /\ out_png[c][n].exists => out_png'[c][n] = out_png[c][n]]_vars

C6_Witness ==
    /\ Failed
    /\ fault = "lookup"
    /\ pos = 2
    /\ LastChar = "A"
    /\ out_json["A"][Name(1)].exists
    /\ \E q \in LaterItems : test_loader[q].character = "B"

\* the next step is the iteration for a frame after the first one
HandleNext == pc = "loop" /\ pos < Len(test_loader) /\ pos' = pos + 1

\* the output of the frame before the next one is gone
PrevJsonGone == ~out_json[NextChar][NextPrevName].exists
PrevPngGone == ~out_png[NextChar][NextPrevName].exists

\* C7 as stated: in every configuration, with the output of frame k gone the
\* iteration of frame k+1 fails on the missing file and writes no map.
C7_Original ==
    [][(HandleNext /\ NextPrevIndex >= 1 /\ PrevJsonGone)
          => /\ err' = "FileNotFoundError"
             /\ ~out_json'[NextChar][NextName].exists]_vars

\* C7 amended: with self_prop, the iteration of frame k+1 fails on the
\* missing file and writes no map when the map or the image of frame k is
\* gone; without self_prop the output of frame k is not read and its absence
\* raises nothing.
C7_OrderingDependency ==
    [][(HandleNext /\ NextPrevIndex >= 1)
          => /\ (self_prop /\ (PrevJsonGone \/ PrevPngGone))
                   => /\ err' = "FileNotFoundError"
                      /\ ~out_json'[NextChar][NextName].exists
             /\ ~self_prop => err' # "FileNotFoundError"]_vars

C7_Witness ==
    /\ self_prop
    /\ deletes >= 1
    /\ pos = 2
    /\ err = "FileNotFoundError"
    /\ fault = "prev_json"
    /\ out_png[LastChar][LastPrevName].exists
    /\ ~out_json[LastChar][LastName].exists

\* C10 as stated: the iteration of frame 1 copies the seed and neither calls
\* the matcher nor resolves colours.
C10_Original ==
    (pos >= 1 /\ LastPrevIndex = 0)
        => /\ pos \notin invoked
           /\ ~out_json[LastChar][LastName].exists

\* C10 amended: the iteration of frame 1 copies the seed map (and the seed
\* image when images are saved) unchanged into the save folder, and then, in
\* the same iteration, calls the matcher and resolves frame 1 against the
\* seed map.
C10_BootstrapThenResolve ==
    (pos >= 1 /\ LastPrevIndex = 0 /\ fault \notin {"seed_json", "seed_png"})
        => /\ out_json[LastChar][LastPrevName] = seg_json[LastChar][LastPrevName]
           /\ save_img => out_png[LastChar][LastPrevName] = gt_png[LastChar][LastPrevName]
           /\ pos \in invoked
           /\ color_dict = seg_json[LastChar][LastPrevName].data
           /\ Completed => out_json[LastChar][LastName] = File(color_next_frame)

C10_Witness ==
    /\ pos = 1
    /\ Completed
    /\ save_img
    /\ 1 \in invoked
    /\ out_json["A"][Name(0)] = File(SeedMap)
    /\ out_png["A"][Name(0)] = File(GtImage("A"))
    /\ out_json["A"][Name(1)] = File(color_next_frame)
    /\ color_next_frame # EmptyMap

====
